---- MODULE Spec2Model ----
(***************************************************************************)
(* Model of the keybind crate (src/src/lib.rs): a Keybind holds a chord    *)
(* (key_binds), the last sample of held keys (pressed_keys) and a callback *)
(* (on_trigger).  triggered() swaps in a fresh sample of the keyboard and  *)
(* decides whether the chord has just been pressed; wait() loops over      *)
(* triggered() and runs the callback on every true.                        *)
(***************************************************************************)
EXTENDS Naturals, Sequences, FiniteSets

\* ------------------------------------------------------------------ bounds

\* Number of triggered() calls explored on one detector.
MaxTicks == 3

\* Longest key sequence handed to new().
MaxChordLen == 2

\* ------------------------------------------------------------------ values

\* Keycodes (device_query::Keycode, re-exported at lib.rs:26); three of them,
\* so that a two-key chord has a strict superset.
Keys == {"LControl", "G", "LShift"}

\* The callbacks: the closure installed by new() and the ones a caller installs.
NoOp == "noop"
Callbacks == {"cb1", "cb2"}

SeqToSet(s) == {s[i] : i \in DOMAIN s}

IsInjective(s) == \A i, j \in DOMAIN s : s[i] = s[j] => i = j

SeqsUpTo(n) == UNION {[1..k -> Keys] : k \in 0..n}

\* What DeviceState::get_keys() can return: the keys held, each once, in an
\* order the provider chooses.
Samples == {s \in SeqsUpTo(Cardinality(Keys)) : IsInjective(s)}

\* The key sequences a caller can hand to new(): any slice, the empty one and
\* ones with repeated keys included.
Chords == SeqsUpTo(MaxChordLen)

\* All orderings of the keys of a sample.
Permutations(s) == {p \in Samples : Len(p) = Len(s) /\ SeqToSet(p) = SeqToSet(s)}

Last(s) == s[Len(s)]

\* ------------------------------------------------------------------ state

VARIABLES
    pc,                     \* "start", "idle" (constructed), "wait_tick", "wait_action"
    key_binds,              \* Keybind.key_binds
    pressed_keys,           \* Keybind.pressed_keys
    on_trigger,             \* Keybind.on_trigger
    device,                 \* the keys the keyboard holds, as get_keys() would list them
    last_sample,            \* what the latest get_keys() call returned
    reads,                  \* number of get_keys() calls
    results,                \* the booleans returned by triggered(), in order
    matches,                \* per tick: did the sample equal the chord as a set
    invocations,            \* the callbacks run by wait(), in order
    last_callback,          \* the argument of the latest on_trigger() call ("none": no call yet)
    dropped,                \* the callback that call replaced ("none": no call yet)
    wait_trues,             \* number of times triggered() returned true to wait()
    action_changes,         \* keyboard changes during the latest callback run (saturating)
    new_args,               \* the slice given to new()
    new_result,             \* "pending", "Ok"
    pressed_keys2,          \* a second detector with the same chord ...
    results2                \* ... and its results

vars == <<pc, key_binds, pressed_keys, on_trigger, device, last_sample,
          reads, results, matches, invocations, last_callback, dropped, wait_trues,
          action_changes, new_args, new_result, pressed_keys2, results2>>

detector == <<key_binds, pressed_keys, on_trigger>>
history == <<last_sample, reads, results, matches>>
twin == <<pressed_keys2, results2>>
construction == <<new_args, new_result>>
installs == <<last_callback, dropped>>

\* ------------------------------------------------------------------ code

\* Keybind::new: the struct literal of lib.rs:46-51.  The slice is copied as
\* given, without a check of its length, and the return type is Keybind: the
\* function has no way to report an empty chord.
new(keys) ==
    [pressed_keys |-> <<>>, key_binds |-> keys, on_trigger |-> NoOp, result |-> "Ok"]

\* A swap that leaves the destination as it was.
mem_replace_keep(dest, src) == [dest |-> dest, old |-> dest]

\* std::mem::replace(&mut dest, src): dest becomes src, the old dest is returned.
mem_replace(dest, src) == [dest |-> src, old |-> dest]

\* A decision that accepts every sample containing the chord.
triggered_superset(binds, previous, pressed) ==
    /\ previous # pressed
    /\ SeqToSet(binds) \subseteq SeqToSet(pressed)

\* A decision on the level: true on every tick that reads the chord.
triggered_level(binds, previous, pressed) ==
    /\ Len(pressed) = Len(binds)
    /\ pressed = binds

\* A decision that compares the sample with the chord as sets of keys.
triggered_as_set(binds, previous, pressed) ==
    /\ Len(pressed) = Len(binds)
    /\ previous # pressed
    /\ SeqToSet(pressed) = SeqToSet(binds)

\* A decision that never fires for an empty chord.
triggered_nonempty(binds, previous, pressed) ==
    /\ binds # <<>>
    /\ Len(pressed) = Len(binds)
    /\ previous # pressed
    /\ pressed = binds

\* The boolean expression of triggered(), lib.rs:75-77, on Vec<Keycode> values:
\* Vec equality is element by element, in order.
triggered(binds, previous, pressed) ==
    /\ Len(pressed) = Len(binds)
    /\ previous # pressed
    /\ pressed = binds

\* A loop that ends at the first false (`while self.triggered()`).
wait_next_pc_break(result) == IF result THEN "wait_action" ELSE "idle"

\* A loop that runs the callback after every triggered() call.
wait_next_pc_always(result) == "wait_action"

\* The body of wait()'s loop after triggered() returned: the callback runs
\* only on true.
wait_next_pc(result) == IF result THEN "wait_action" ELSE "wait_tick"

\* A loop that keeps polling while the callback runs.
at_triggered_call_async(p) == p \in {"wait_tick", "wait_action"}

\* wait() is one thread: it calls triggered() only when no callback is running
\* (the callback call of lib.rs:117 returns before the loop comes round).
at_triggered_call(p) == p = "wait_tick"

\* An on_trigger() that keeps a callback installed earlier.
on_trigger_store_keep(old, callback) == IF old = NoOp THEN callback ELSE old

\* The assignment of on_trigger(), lib.rs:94: the new box replaces the old one.
on_trigger_store(old, callback) == callback

\* The sample equals the chord as a set of keys.
SetMatch(sample, binds) == SeqToSet(sample) = SeqToSet(binds)

\* A triggered() that swaps the sample into the chord field.
TriggeredBody_swaps_chord(sample) ==
    LET swap == mem_replace(key_binds, sample)
        result == triggered(swap.dest, pressed_keys, swap.dest)
    IN  /\ device' = sample
        /\ last_sample' = sample
        /\ reads' = reads + 1
        /\ key_binds' = swap.dest
        /\ results' = Append(results, result)
        /\ matches' = Append(matches, SetMatch(sample, key_binds))
        /\ UNCHANGED <<pressed_keys, on_trigger, invocations>>

\* A triggered() that runs the callback itself when it is about to return true.
TriggeredBody_invokes(sample) ==
    LET swap == mem_replace(pressed_keys, sample)
        result == triggered(key_binds, swap.old, swap.dest)
    IN  /\ device' = sample
        /\ last_sample' = sample
        /\ reads' = reads + 1
        /\ pressed_keys' = swap.dest
        /\ results' = Append(results, result)
        /\ matches' = Append(matches, SetMatch(sample, key_binds))
        /\ invocations' = IF result THEN Append(invocations, on_trigger) ELSE invocations
        /\ UNCHANGED <<key_binds, on_trigger>>

\* One run of the body of triggered(), lib.rs:70-77: one get_keys() call
\* (which returns sample, the keyboard at that moment), the swap, the decision.
TriggeredBody(sample) ==
    LET swap == mem_replace(pressed_keys, sample)
        result == triggered(key_binds, swap.old, swap.dest)
    IN  /\ device' = sample
        /\ last_sample' = sample
        /\ reads' = reads + 1
        /\ pressed_keys' = swap.dest
        /\ results' = Append(results, result)
        /\ matches' = Append(matches, SetMatch(sample, key_binds))
        /\ UNCHANGED <<key_binds, on_trigger, invocations>>

\* ------------------------------------------------------------------ actions

Init ==
    /\ pc = "start"
    /\ key_binds = <<>>
    /\ pressed_keys = <<>>
    /\ on_trigger = NoOp
    /\ device = <<>>
    /\ last_sample = <<>>
    /\ reads = 0
    /\ results = <<>>
    /\ matches = <<>>
    /\ invocations = <<>>
    /\ last_callback = "none"
    /\ dropped = "none"
    /\ wait_trues = 0
    /\ action_changes = 0
    /\ new_args = <<>>
    /\ new_result = "pending"
    /\ pressed_keys2 = <<>>
    /\ results2 = <<>>

\* Keybind::new(keys)
New(keys) ==
    /\ pc = "start"
    /\ LET kb == new(keys)
       IN  /\ key_binds' = kb.key_binds
           /\ pressed_keys' = kb.pressed_keys
           /\ on_trigger' = kb.on_trigger
           /\ new_result' = kb.result
    /\ new_args' = keys
    /\ pc' = "idle"
    /\ UNCHANGED <<device, history, invocations, installs, wait_trues,
                   action_changes, twin>>

\* keybind.on_trigger(callback)
OnTrigger(callback) ==
    /\ pc = "idle"
    /\ on_trigger' = on_trigger_store(on_trigger, callback)
    /\ last_callback' = callback
    /\ dropped' = on_trigger
    /\ UNCHANGED <<pc, key_binds, pressed_keys, device, history, invocations,
                   wait_trues, action_changes, construction, twin>>

\* keybind.triggered(), called by the user
CallTriggered ==
    /\ pc = "idle"
    /\ Len(results) < MaxTicks
    /\ \E sample \in Samples : TriggeredBody(sample)
    /\ UNCHANGED <<pc, installs, wait_trues, action_changes,
                   construction, twin>>

\* keybind.wait(): enter the loop
Wait ==
    /\ pc = "idle"
    /\ pc' = "wait_tick"
    /\ UNCHANGED <<detector, device, history, invocations, installs, wait_trues,
                   action_changes, construction, twin>>

\* wait(): `if self.triggered()`
WaitTick ==
    /\ at_triggered_call(pc)
    /\ Len(results) < MaxTicks
    /\ \E sample \in Samples : TriggeredBody(sample)
    /\ pc' = wait_next_pc(Last(results'))
    /\ wait_trues' = IF Last(results') THEN wait_trues + 1 ELSE wait_trues
    /\ action_changes' = IF Last(results') THEN 0 ELSE action_changes
    /\ UNCHANGED <<installs, construction, twin>>

\* wait(): `(self.on_trigger)()`, from call to return
InvokeAction ==
    /\ pc = "wait_action"
    /\ invocations' = Append(invocations, on_trigger)
    /\ pc' = "wait_tick"
    /\ UNCHANGED <<detector, device, history, installs, wait_trues,
                   action_changes, construction, twin>>

\* The user presses or releases keys while the callback runs.  (Outside a
\* callback run only the keyboard's state at the next get_keys() call matters,
\* and the changes before it are part of the sample that call returns.)
KeyChange ==
    /\ pc = "wait_action"
    /\ \E s \in Samples \ {device} : device' = s
    /\ action_changes' = IF action_changes < 2 THEN action_changes + 1 ELSE action_changes
    /\ UNCHANGED <<pc, detector, history, invocations, installs, wait_trues,
                   construction, twin>>

Next ==
    \/ \E keys \in Chords : New(keys)
    \/ \E callback \in Callbacks : OnTrigger(callback)
    \/ CallTriggered
    \/ Wait
    \/ WaitTick
    \/ InvokeAction
    \/ KeyChange

Spec == Init /\ [][Next]_vars

\* ------------------------------------------------------------------ two detectors

\* Two detectors with the same chord call triggered() at the same moments; the
\* second one's provider lists the same held keys in an order of its own.
TickPair ==
    /\ pc = "idle"
    /\ Len(results) < MaxTicks
    /\ \E sample \in Samples :
          /\ TriggeredBody(sample)
          /\ \E sample2 \in Permutations(sample) :
                LET swap2 == mem_replace(pressed_keys2, sample2)
                IN  /\ pressed_keys2' = swap2.dest
                    /\ results2' = Append(results2,
                                          triggered(key_binds, swap2.old, swap2.dest))
    /\ UNCHANGED <<pc, installs, wait_trues, action_changes, construction>>

NextPair ==
    \/ \E keys \in Chords : New(keys)
    \/ TickPair

SpecPair == Init /\ [][NextPair]_vars

\* ------------------------------------------------------------------ duplicate keys

\* The keys of a sequence, each kept at its first place.
RECURSIVE Dedup(_)
Dedup(s) ==
    IF s = <<>> THEN <<>>
    ELSE LET front == Dedup(SubSeq(s, 1, Len(s) - 1))
             k == s[Len(s)]
         IN  IF k \in SeqToSet(front) THEN front ELSE Append(front, k)

\* A detector built with the chord and one built with the chord without its
\* repeated keys call triggered() at the same moments and read the same sample.
TickDedup ==
    /\ pc = "idle"
    /\ Len(results) < MaxTicks
    /\ \E sample \in Samples :
          /\ TriggeredBody(sample)
          /\ LET swap2 == mem_replace(pressed_keys2, sample)
             IN  /\ pressed_keys2' = swap2.dest
                 /\ results2' = Append(results2,
                                       triggered(new(Dedup(new_args)).key_binds,
                                                 swap2.old, swap2.dest))
    /\ UNCHANGED <<pc, installs, wait_trues, action_changes, construction>>

NextDedup ==
    \/ \E keys \in Chords : New(keys)
    \/ TickDedup

SpecDedup == Init /\ [][NextDedup]_vars

\* ------------------------------------------------------------------ claims

TrueCount(r) == Cardinality({i \in DOMAIN r : r[i]})

\* Number of maximal runs of TRUE in a sequence of booleans.
RunCount(m) == Cardinality({i \in DOMAIN m : m[i] /\ (i = 1 \/ ~m[i - 1])})

\* The chord is one the spec's data model admits: non-empty, no key twice.
ProperChord == key_binds # <<>> /\ IsInjective(key_binds)

\* A step in which triggered() ran once.
TickStep == reads' = reads + 1

\* C1 (as claimed): every triggered() call returns true iff the new sample has
\* as many keys as the chord, equals the chord as a set of keys, and differs
\* from the sample stored before the call.
C1_TrueIffSetEqual ==
    [][TickStep =>
         (Last(results') <=>
            /\ Len(pressed_keys') = Len(key_binds)
            /\ SetMatch(pressed_keys', key_binds)
            /\ pressed_keys' # pressed_keys)]_vars

\* C2 (as claimed, already for non-empty chords without repeated keys): the
\* number of true results equals the number of maximal runs of samples whose
\* key set is the chord.
C2_OneTruePerRun ==
    ProperChord => TrueCount(results) = RunCount(matches)

\* C3 (as claimed, already for non-empty chords without repeated keys): when
\* every sample fed to a fresh detector has the chord's key set, the first
\* call returns true and every later call returns false.
C3_HoldFiresOnceFirst ==
    (/\ ProperChord
     /\ Len(results) >= 1
     /\ \A i \in DOMAIN matches : matches[i])
    => (results[1] /\ \A i \in DOMAIN results : i > 1 => ~results[i])

\* C4 (as claimed, already for non-empty chords without repeated keys):
\* samples chord, not-chord, chord (as sets) fed to a fresh detector yield
\* true, false, true.
C4_RearmAfterRelease ==
    (ProperChord /\ matches = <<TRUE, FALSE, TRUE>>)
    => results = <<TRUE, FALSE, TRUE>>

\* C5 (as claimed): two detectors with the same chord whose samples are, tick
\* by tick, permutations of each other return the same results.
C5_OrderInsensitive == results2 = results

\* C6: triggered() returns true only on a tick whose sample equals the chord as
\* a set of keys: never on a strict superset of the chord, never when a chord
\* key is missing.
C6_NoFalsePositive == \A i \in DOMAIN results : results[i] => matches[i]

\* The chord was held (true), then one more key went down (false).
C6_Witness ==
    /\ Len(results) = 2
    /\ results = <<TRUE, FALSE>>
    /\ SeqToSet(key_binds) \subseteq SeqToSet(pressed_keys)
    /\ SeqToSet(key_binds) # SeqToSet(pressed_keys)

\* C7 (as claimed): new() with an empty key sequence fails with EmptyChord and
\* produces no detector; with a non-empty one it succeeds and yields a
\* detector with an empty stored sample and the no-op callback.
C7_EmptyChordRejected ==
    /\ (pc # "start" /\ new_args = <<>>) => new_result = "EmptyChord"
    /\ (pc = "idle" /\ new_args # <<>> /\ reads = 0 /\ last_callback = "none") =>
          /\ new_result = "Ok"
          /\ pressed_keys = <<>>
          /\ on_trigger = NoOp

\* C8: in wait() the callback has run once for every true that triggered()
\* returned to the loop (the one being run counted), and never otherwise.
C8_ActionParity ==
    /\ pc \in {"start", "idle"} => invocations = <<>> /\ wait_trues = 0
    /\ pc = "wait_tick" => Len(invocations) = wait_trues
    /\ pc = "wait_action" => Last(results) /\ Len(invocations) + 1 = wait_trues

\* wait() saw true, false, true and has run the callback twice.
C8_Witness ==
    /\ pc = "wait_tick"
    /\ results = <<TRUE, FALSE, TRUE>>
    /\ wait_trues = 2
    /\ Len(invocations) = 2

\* C9: while the callback runs no sample is read and the stored sample stays;
\* the run ends with exactly one invocation; and when the keys were released
\* and pressed again during the run, so that the next sample is the stored
\* one, the next triggered() returns false and no callback follows.
C9_ActionRunsToCompletion ==
    [][/\ pc = "wait_action" =>
            /\ reads' = reads
            /\ pressed_keys' = pressed_keys
            /\ results' = results
            /\ \/ pc' = "wait_action" /\ invocations' = invocations
               \/ pc' = "wait_tick" /\ invocations' = Append(invocations, on_trigger)
       /\ (pc = "wait_tick" /\ TickStep /\ action_changes = 2
           /\ last_sample' = pressed_keys) =>
            /\ ~Last(results')
            /\ pc' = "wait_tick"
            /\ invocations' = invocations]_vars

\* The chord fired, the keys changed twice while the callback ran, and the
\* next tick, reading the chord again, returned false.
C9_Witness ==
    /\ pc = "wait_tick"
    /\ action_changes = 2
    /\ results = <<TRUE, FALSE>>
    /\ pressed_keys = key_binds
    /\ Len(invocations) = 1

\* C10: after every triggered() call the stored sample is the one that call's
\* get_keys() returned, and there has been one get_keys() call per
\* triggered() call.
C10_StoredIsLastSample ==
    /\ reads = Len(results)
    /\ reads >= 1 => pressed_keys = last_sample

\* A call that returned false replaced a different stored sample.
C10_Witness ==
    /\ Len(results) = 2
    /\ results = <<TRUE, FALSE>>
    /\ pressed_keys = last_sample
    /\ pressed_keys # key_binds
    /\ pressed_keys # <<>>

\* C11: in every state after construction the chord is the key sequence given
\* to new(), same keys, same order, same length; no step changes it.
C11_ChordImmutable ==
    [][pc # "start" => (key_binds = new_args /\ key_binds' = key_binds)]_vars

\* The chord [LControl, G] after on_trigger(), triggered() calls and a callback
\* run inside wait().
C11_Witness ==
    /\ pc = "wait_tick"
    /\ on_trigger \in Callbacks
    /\ Len(results) = 3
    /\ Len(invocations) = 1
    /\ key_binds = new_args
    /\ key_binds = <<"LControl", "G">>

\* C12: on_trigger(a) stores a (it cannot fail), leaves the chord, the stored
\* sample and the results alone, and every callback wait() runs is the one
\* installed last, the no-op of new() when none was installed.
C12_OnTriggerReplaces ==
    [][/\ last_callback' # last_callback \/ dropped' # dropped =>
            /\ on_trigger' = last_callback'
            /\ dropped' = on_trigger
            /\ key_binds' = key_binds
            /\ pressed_keys' = pressed_keys
            /\ results' = results
            /\ invocations' = invocations
            /\ pc' = pc
       /\ invocations' # invocations =>
            /\ Len(invocations') = Len(invocations) + 1
            /\ Last(invocations') =
                  (IF last_callback = "none" THEN NoOp ELSE last_callback)]_vars

\* cb2 replaced cb1, and wait() has run cb2.
C12_Witness ==
    /\ last_callback = "cb2"
    /\ dropped = "cb1"
    /\ pc = "wait_tick"
    /\ invocations = <<"cb2">>
    /\ results = <<TRUE>>

\* C13 (as claimed): a detector built with a chord that repeats keys returns,
\* tick by tick, what a detector built with the deduplicated chord returns.
C13_DuplicatesCollapse == results2 = results

\* C14: once wait() has been entered it is never left: the loop is at the
\* triggered() call or in the callback for ever after.
C14_WaitNeverReturns ==
    [][(pc \in {"wait_tick", "wait_action"}) =>
         (pc' \in {"wait_tick", "wait_action"})]_vars

\* wait() is still looping after a false and a true tick and a callback run.
C14_Witness ==
    /\ pc = "wait_tick"
    /\ wait_trues = 1
    /\ Len(invocations) = 1
    /\ results = <<FALSE, TRUE, FALSE>>

\* The ARMED / TRIGGERED machine after tick i: TRIGGERED iff the sample of
\* tick i equals the chord as a set; ARMED before the first tick.
MachineTriggered(i) == i >= 1 /\ matches[i]

\* C15 (as claimed, already for non-empty chords without repeated keys):
\* triggered() returns true on exactly the ticks on which the machine moves
\* from ARMED to TRIGGERED.
C15_RefinesMachine ==
    ProperChord =>
        \A i \in DOMAIN results :
            results[i] <=> (~MachineTriggered(i - 1) /\ MachineTriggered(i))

\* C16 (as claimed, already for non-empty chords without repeated keys): a
\* tick whose sample equals the chord as a set returns true when the stored
\* sample was a strict superset of the chord.
C16_NarrowingFires ==
    [][(/\ TickStep
        /\ ProperChord
        /\ SetMatch(pressed_keys', key_binds)
        /\ SeqToSet(key_binds) \subseteq SeqToSet(pressed_keys)
        /\ SeqToSet(key_binds) # SeqToSet(pressed_keys))
       => Last(results')]_vars

\* C17: a triggered() call runs no callback and leaves the callback slot and
\* the chord as they were; what it returns is decided by the chord, the stored
\* sample and the new sample alone.
C17_TriggeredFrame ==
    [][TickStep =>
         /\ invocations' = invocations
         /\ on_trigger' = on_trigger
         /\ key_binds' = key_binds
         /\ last_callback' = last_callback
         /\ Last(results') <=>
               (pressed_keys' = key_binds /\ pressed_keys' # pressed_keys)]_vars

\* A user's triggered() call returned true with cb1 installed, and no callback
\* has run.
C17_Witness ==
    /\ pc = "idle"
    /\ on_trigger = "cb1"
    /\ results = <<FALSE, TRUE>>
    /\ invocations = <<>>

\* C18: no two consecutive triggered() calls both return true, whatever the
\* chord and the order of the keys in the samples; so a callback run in wait()
\* is never for a tick that follows a true tick.
C18_NoTwoTruesInARow ==
    /\ \A i \in DOMAIN results : (i > 1 /\ results[i]) => ~results[i - 1]
    /\ (pc = "wait_action" /\ Len(results) > 1) => ~results[Len(results) - 1]

\* The chord was read twice in a row: true, then false.
C18_Witness ==
    /\ results = <<FALSE, TRUE, FALSE>>
    /\ pressed_keys = key_binds
    /\ key_binds # <<>>

\* C19: when triggered() returns true the stored sample is afterwards the
\* chord given to new(), key for key in the same order, and the sample stored
\* before was another sequence.
C19_TrueStoresChord ==
    [][(TickStep /\ Last(results')) =>
         /\ pressed_keys' = new_args
         /\ Len(pressed_keys') = Len(new_args)
         /\ pressed_keys # pressed_keys']_vars

\* A true right after the same keys were read in another order.
C19_Witness ==
    /\ results = <<FALSE, TRUE>>
    /\ pressed_keys = new_args
    /\ Len(new_args) = 2
    /\ matches = <<TRUE, TRUE>>

\* C20: with the empty chord triggered() returns true exactly on the ticks
\* that read no key while the stored sample had keys; in particular false on
\* the first tick of a fresh detector when nothing is held.
C20_EmptyChordFiresOnRelease ==
    [][(TickStep /\ key_binds = <<>>) =>
         (Last(results') <=> (pressed_keys' = <<>> /\ pressed_keys # <<>>))]_vars

\* Empty chord: nothing held (false), a key down (false), all released (true).
C20_Witness ==
    /\ new_args = <<>>
    /\ key_binds = <<>>
    /\ results = <<FALSE, FALSE, TRUE>>
    /\ matches = <<TRUE, FALSE, TRUE>>
    /\ pressed_keys = <<>>

====
